---- MODULE Spec2Model ----
(***************************************************************************)
(* A model of the move tools of the Xaya MCP server (src/app):             *)
(* splitMovePath, hasMovePermission, sendMove and getTransactionStatus of  *)
(* tools_moves.Tools, with the contract reads of tools_contract.Tools they *)
(* rely on.  A coroutine runs without interruption between two awaits, so  *)
(* every action is the code from one await to the next.                    *)
(***************************************************************************)
EXTENDS Integers, Sequences, FiniteSets, TLC

VARIABLES
  chain,     \* the ledger as the contract reads see it
  now,       \* int(time.time())
  config,    \* gas_config and operator_account, set once in main()
  req,       \* the request in flight: operation, position, arguments, locals
  calls,     \* the node and contract calls the request has issued, in order
  result     \* what the request returned or raised

vars == <<chain, now, config, req, calls, result>>

-----------------------------------------------------------------------------
(* Bounds of the model.                                                    *)

\* Nesting depth of the generated move values.
MaxDepth == 3
\* Length of the list of transaction identifiers of a status request.
MaxTxids == 2
\* The clock runs from 0 to MaxNow.
MaxNow == 1
\* Length of a token identifier passed as a string.
MaxTokenIdLen == 3

-----------------------------------------------------------------------------
(* JSON values.  A Python dict keeps its insertion order: an object is a   *)
(* sequence of <<key, value>> pairs with distinct keys.                    *)

JNull == [k |-> "null", v |-> 0]
JInt(n) == [k |-> "int", v |-> n]
JStr(s) == [k |-> "str", v |-> s]
JDict(items) == [k |-> "dict", v |-> items]

\* isinstance(value, dict)
isDict(value) == value.k = "dict"

Keys == {"a", "b"}
Leaves == {JInt(1), JStr("s")}

\* The values held by a generated two-key object.
WideValues ==
  Leaves \cup {JDict(<<>>)} \cup {JDict(<< <<k1, v1>> >>) : k1 \in Keys, v1 \in Leaves}

\* Every leaf, the empty object, every single-key object over a value one
\* level down, and the two-key objects over WideValues.
RECURSIVE MoveSet(_)
MoveSet(d) ==
  IF d = 0 THEN Leaves \cup {JDict(<<>>)}
  ELSE Leaves \cup {JDict(<<>>)}
         \cup {JDict(<< <<k1, v1>> >>) : k1 \in Keys, v1 \in MoveSet(d - 1)}
         \cup {JDict(<< <<t[1], t[3]>>, <<t[2], t[4]>> >>) :
                 t \in {u \in Keys \X Keys \X WideValues \X WideValues : u[1] # u[2]}}

\* The moves of section 8 of the specification.
ExampleNested == JDict(<< <<"a", JDict(<< <<"b", JDict(<< <<"x", JInt(1)>> >>)>> >>)>> >>)
ExampleFlat == JDict(<< <<"x", JInt(1)>> >>)
ExampleTwoKeys == JDict(<< <<"a", JDict(<< <<"b", JInt(1)>>, <<"c", JInt(2)>> >>)>> >>)
ExampleScalar == JInt(42)
Examples == {ExampleNested, ExampleFlat, ExampleTwoKeys, ExampleScalar}

SplitMoves == MoveSet(MaxDepth) \cup Examples \cup {JNull}

-----------------------------------------------------------------------------
(* json.dumps(value, separators=(',', ':'))                                *)

Quote(s) == "\"" \o s \o "\""

RECURSIVE dumps(_)
RECURSIVE dumpsItems(_)
dumpsItems(items) ==
  IF Len(items) = 0 THEN ""
  ELSE Quote(items[1][1]) \o ":" \o dumps(items[1][2])
         \o (IF Len(items) > 1 THEN "," ELSE "") \o dumpsItems(Tail(items))
dumps(value) ==
  CASE value.k = "null" -> "null"
    [] value.k = "int" -> ToString(value.v)
    [] value.k = "str" -> Quote(value.v)
    [] value.k = "dict" -> "{" \o dumpsItems(value.v) \o "}"

-----------------------------------------------------------------------------
(* Tools.splitMovePath                                                     *)

\* splitMovePath without the test of line 36: it peels the last layer too.
RECURSIVE splitLoopNoLeafTest(_, _)
splitLoopNoLeafTest(path, current_value) ==
  IF isDict(current_value) /\ Len(current_value.v) = 1
  THEN splitLoopNoLeafTest(Append(path, current_value.v[1][1]), current_value.v[1][2])
  ELSE [path |-> path, value |-> current_value]

RECURSIVE splitLoop(_, _)
splitLoop(path, current_value) ==
  IF isDict(current_value) /\ Len(current_value.v) = 1
  THEN LET key == current_value.v[1][1]
           nextValue == current_value.v[1][2]
       IN  IF ~isDict(nextValue)
           THEN [path |-> path, value |-> current_value]
           ELSE splitLoop(Append(path, key), nextValue)
  ELSE [path |-> path, value |-> current_value]

\* splitMovePath peeling nothing.
splitMovePathWhole(move) == [path |-> <<>>, value |-> move]

splitMovePath(move) == splitLoop(<<>>, move)

-----------------------------------------------------------------------------
(* Optional values, results and the call log.                              *)

None == [some |-> FALSE]
Some(x) == [some |-> TRUE, val |-> x]

NoResult == [kind |-> "none"]
Return(value) == [kind |-> "return", value |-> value]
Raise(type, msg) == [kind |-> "raise", type |-> type, msg |-> msg]

\* A call that was issued and has not returned yet.
Call(fn, args) == [fn |-> fn, args |-> args, ret |-> [k |-> "pending"]]
\* The log once its last call returned value, or raised.
Returned(cl, value) == [cl EXCEPT ![Len(cl)].ret = [k |-> "ok", v |-> value]]
Raised(cl) == [cl EXCEPT ![Len(cl)].ret = [k |-> "raised"]]

Idle == [op |-> "idle", pc |-> "idle"]
\* No request is in flight: a new one may arrive.
Free == req.pc = "idle"

-----------------------------------------------------------------------------
(* Addresses, keys and accounts.                                           *)

\* The checksummed addresses of the two accounts, of the delegation contract,
\* and the address getApproved returns for a token nobody is approved for.
Accounts == {"0xA1", "0xA2"}
DelegationAddress == "0xDE"
ZeroAddress == "0x" \o "0000000000000000000000000000000000000000"

\* str.islower() on the address strings a caller passes.
islower(s) == s \in {"0xa1", "0xa2", "0xzz"}

\* Web3.to_checksum_address: the checksummed address, or None when it raises.
to_checksum_address(s) ==
  CASE s \in {"0xa1", "0xA1", "0XA1"} -> Some("0xA1")
    [] s \in {"0xa2", "0xA2"} -> Some("0xA2")
    [] OTHER -> None

\* Web3.is_checksum_address
is_checksum_address(s) == s \in Accounts \cup {DelegationAddress, ZeroAddress}

\* Account.from_key: the account, or None when it raises.
from_key(privkey) ==
  CASE privkey = "key1" -> Some([address |-> "0xA1", key |-> "key1"])
    [] privkey = "key2" -> Some([address |-> "0xA2", key |-> "key2"])
    [] OTHER -> None

-----------------------------------------------------------------------------
(* The arguments of the requests.                                          *)

Namespaces == {"p", ""}
Names == {"alice", ""}
ExampleLeafChain == JDict(<< <<"a", JInt(1)>> >>)
ExampleGranted == JDict(<< <<"a", ExampleFlat>> >>)
AuthMoves == {JNull, ExampleScalar, ExampleLeafChain, ExampleGranted, ExampleNested}
SendingAddresses ==
  {None} \cup {Some(a) : a \in {"0xA1", "0xA2", "0xa1", "0xa2", "0xzz", "0XA1"}}
PrivateKeys == {None, Some("key1"), Some("key2"), Some("nokey")}
GasOverrides == {None, Some([max |-> 5]), Some([prio |-> 1]), Some([max |-> 5, prio |-> 1])}

-----------------------------------------------------------------------------
(* The ledger: the accounts contract and the delegation contract.          *)

\* time.time() + 60 of hasMovePermission.
Grace == 60
\* The delegation contract holds at most one grant, of GrantPath and below to
\* GrantAddress, until chain.accessUntil (0: no grant).
GrantPath == <<"a">>
GrantAddress == "0xA2"
Expirations == {0, Grace, Grace + MaxNow}

IsPrefix(p, q) == Len(p) <= Len(q) /\ SubSeq(q, 1, Len(p)) = p

tokenIdForName(ns, name) == 7
ownerOf(c, tokenId) == c.owner
isApprovedForAll(c, owner, operator) == owner = c.owner /\ operator \in c.approvedAll
getApproved(c, tokenId) == c.approved
\* The predicate answered for the ledger's time at the answer: atTime ignored.
hasAccessAtBlockTime(c, ns, name, path, address, atTime) ==
  address = GrantAddress /\ IsPrefix(GrantPath, path) /\ now + Grace <= c.accessUntil

hasAccess(c, ns, name, path, address, atTime) ==
  address = GrantAddress /\ IsPrefix(GrantPath, path) /\ atTime <= c.accessUntil

\* The transactions the clients ask about, and the ledger's receipt of each:
\* none yet, or one with status 1 (success) or 0 (reverted).
Transactions == {"0x01", "0x02"}
NoReceipts == [txid \in Transactions |-> "none"]
get_transaction_receipt(c, txid) == c.receipts[txid]

\* The token is owned by the first account; no transaction is mined.
Chains ==
  [owner : {"0xA1"},
   approvedAll : SUBSET {"0xA2", DelegationAddress},
   approved : {ZeroAddress, "0xA2", DelegationAddress},
   accessUntil : Expirations,
   receipts : {NoReceipts}]

\* Nobody is approved and nothing is granted; any transaction may be mined.
StatusChains ==
  [owner : {"0xA1"}, approvedAll : {{}}, approved : {ZeroAddress}, accessUntil : {0},
   receipts : [Transactions -> {"none", "success", "reverted"}]]

\* Tools._normalize_token_id, of a token identifier that is an integer.
normalize_token_id(token_id) == token_id

-----------------------------------------------------------------------------
(* Tools.hasMovePermission                                                 *)

\* Lines 57 to 86: the arguments are checked and the address is resolved.
\* The address to check, or the error raised.
ResolveAddress(ns, name, move, sending_address) ==
  IF ns = "" THEN [ok |-> FALSE, error |-> Raise("ValueError", "ns (namespace) is required and must be a string")]
  ELSE IF name = "" THEN [ok |-> FALSE, error |-> Raise("ValueError", "name is required and must be a string")]
  ELSE IF move.k = "null" THEN [ok |-> FALSE, error |-> Raise("ValueError", "move is required")]
  ELSE IF ~sending_address.some /\ ~config.operator_account.some
  THEN [ok |-> FALSE, error |-> Raise("ValueError", "No sending address provided and no operator account configured")]
  ELSE LET given == IF sending_address.some THEN sending_address.val
                    ELSE config.operator_account.val.address
           checksummed == IF islower(given) THEN to_checksum_address(given) ELSE Some(given)
       IN  IF ~checksummed.some
           THEN [ok |-> FALSE, error |-> Raise("ValueError", "Invalid Ethereum address format")]
           ELSE IF ~is_checksum_address(checksummed.val)
           THEN [ok |-> FALSE, error |-> Raise("ValueError", "Address must be a valid checksummed Ethereum address")]
           ELSE [ok |-> TRUE, address |-> checksummed.val]

\* Lines 104 to 111, with the move split first.
GrantedResultOfRemainder(move, address_to_check) ==
  [hasPermission |-> TRUE, delegation |-> FALSE,
   move |-> dumps(splitMovePath(move).value), address |-> address_to_check]

\* Lines 104 to 111.
GrantedResult(move, address_to_check) ==
  [hasPermission |-> TRUE, delegation |-> FALSE,
   move |-> dumps(move), address |-> address_to_check]

\* Lines 118 to 122.
DeniedResult(address_to_check) ==
  [hasPermission |-> FALSE, address |-> address_to_check,
   reason |-> "Delegation contract is not approved for this name"]

\* Lines 137 to 145.
DelegatedResult(has_access, remaining_value, address_to_check, path) ==
  [hasPermission |-> has_access, delegation |-> TRUE,
   move |-> dumps(remaining_value), address |-> address_to_check, path |-> path]

\* Line 128 without the 60 seconds.
atTimeNoGrace(t) == t

\* Line 128.
atTime(t) == t + Grace

\* Line 35 of tools_contract.py, taking any approved address for the one asked.
approvedMatchesAny(approved_address, address) == approved_address # ZeroAddress

\* Line 35 of tools_contract.py, never matching.
approvedMatchesNever(approved_address, address) == FALSE

\* Line 35 of tools_contract.py.
approvedMatches(approved_address, address) == approved_address = address

-----------------------------------------------------------------------------
(* Tools.sendMove                                                          *)

\* dict.update
update(d, other) ==
  [key \in DOMAIN d \cup DOMAIN other |-> IF key \in DOMAIN other THEN other[key] ELSE d[key]]

\* Lines 183 to 187 with the arguments of update exchanged: the default wins.
mergeGasDefaultWins(gas_config, gas_gwei) ==
  LET gas == IF gas_gwei.some THEN gas_gwei.val ELSE <<>>
  IN  IF gas_config.some THEN update(gas, gas_config.val) ELSE gas

\* Lines 183 to 187.
mergeGas(gas_config, gas_gwei) ==
  LET gas == IF gas_config.some THEN gas_config.val ELSE <<>>
  IN  IF gas_gwei.some THEN update(gas, gas_gwei.val) ELSE gas

\* Lines 184 to 187 without the copy: gas is the configured dict itself, and
\* the update of line 187 writes the override into it.
gasConfigUpdatedInPlace(gas_config, gas_gwei) ==
  IF gas_config.some /\ gas_gwei.some
  THEN Some(update(gas_config.val, gas_gwei.val))
  ELSE gas_config

\* Lines 184 to 187: what self.contract_tools.gas_config holds afterwards.
\* gas is a copy of it (line 185), so the update of line 187 leaves it alone.
gasConfigAfterMerge(gas_config, gas_gwei) == gas_config

\* Line 188.
gasIncomplete(gas) == "max" \notin DOMAIN gas \/ "prio" \notin DOMAIN gas

\* Line 193 taking only the result that carries a reason for a refusal.
permissionDeniedByReason(permission) == "reason" \in DOMAIN permission

\* Line 193.
permissionDenied(permission) == ~permission.hasPermission

\* 2**256 - 1, in decimal.
MaxUint256 ==
  "115792089237316195423570985008687907853269984665640564039457584007913129639935"

\* Lines 200 to 206 with the branches exchanged on the path's presence only:
\* always the direct call.
buildCallDirect(ns, name, permission) ==
  [contract |-> "accounts", fn |-> "move",
   args |-> <<ns, name, permission.move, MaxUint256, 0, ZeroAddress>>]

\* Lines 200 to 206.
buildCall(ns, name, permission) ==
  IF permission.delegation
  THEN [contract |-> "delegation", fn |-> "sendHierarchicalMove",
        args |-> <<ns, name, permission.path, permission.move>>]
  ELSE [contract |-> "accounts", fn |-> "move",
        args |-> <<ns, name, permission.move, MaxUint256, 0, ZeroAddress>>]

\* w3.to_wei(value, "gwei"), in decimal, of a positive whole number of gwei.
to_wei_gwei(value) == ToString(value) \o "000000000"

\* Lines 209 to 214.
txDict(acc, nonce, gas) ==
  [from |-> acc.address, nonce |-> nonce,
   maxFeePerGas |-> to_wei_gwei(gas["max"]),
   maxPriorityFeePerGas |-> to_wei_gwei(gas["prio"])]

\* tx.build_transaction(tx_dict)
build_transaction(tx, tx_dict) == [call |-> tx, params |-> tx_dict]

\* The node's answers: the sender's transaction count, the gas estimate and
\* the hash of an accepted transaction.
get_transaction_count(c, address) == 0
estimate_gas(transaction) == 100000
transaction_hash_hex(signed_tx) == "c0ffee0" \o ToString(signed_tx.transaction.params.nonce)

\* Lines 163 to 189: the arguments are checked, the account and the gas
\* settings are resolved.  The account and the gas settings, or the error.
SendMovePrepare(ns, name, move, privkey, gas_gwei) ==
  IF ns = "" THEN [ok |-> FALSE, gas_config |-> config.gas_config,
                   error |-> Raise("ValueError", "ns (namespace) is required and must be a string")]
  ELSE IF name = "" THEN [ok |-> FALSE, gas_config |-> config.gas_config,
                          error |-> Raise("ValueError", "name is required and must be a string")]
  ELSE IF move.k = "null" THEN [ok |-> FALSE, gas_config |-> config.gas_config,
                                error |-> Raise("ValueError", "move is required")]
  ELSE LET acc == IF privkey.some THEN from_key(privkey.val) ELSE config.operator_account
           gas == mergeGas(config.gas_config, gas_gwei)
           gas_config == gasConfigAfterMerge(config.gas_config, gas_gwei)
       IN  IF privkey.some /\ ~acc.some
           THEN [ok |-> FALSE, gas_config |-> config.gas_config,
                 error |-> Raise("ValueError", "Invalid private key")]
           ELSE IF ~acc.some
           THEN [ok |-> FALSE, gas_config |-> config.gas_config,
                 error |-> Raise("ValueError", "No private key specified and no operator account configured")]
           ELSE IF gasIncomplete(gas)
           THEN [ok |-> FALSE, gas_config |-> gas_config,
                 error |-> Raise("ValueError", "Gas settings must contain 'max' and 'prio' keys")]
           ELSE [ok |-> TRUE, acc |-> acc.val, gas |-> gas, gas_config |-> gas_config]

\* Lines 193 to 211: hasMovePermission returned permission to sendMove.
SendMoveAuthorized(rq, cl, permission) ==
  IF permissionDenied(permission)
  THEN /\ req' = [pc |-> "failed", permission |-> permission] @@ rq
       /\ calls' = cl
       /\ result' = Raise("RuntimeError", "Account does not have permission to send this move")
  ELSE /\ req' = [pc |-> "get_transaction_count", permission |-> permission,
                   tx |-> buildCall(rq.ns, rq.name, permission)] @@ rq
       /\ calls' = Append(cl, Call("get_transaction_count", <<rq.acc.address>>))
       /\ UNCHANGED result

-----------------------------------------------------------------------------
(* Tools.hasMovePermission, from its first await on                        *)

\* hasMovePermission returns permission: to its caller for the operation
\* hasMovePermission; for sendMove, lines 193 to 211 follow.
PermissionReturn(rq, cl, permission) ==
  IF rq.op = "hasMovePermission"
  THEN /\ req' = [pc |-> "done"] @@ rq
       /\ calls' = cl
       /\ result' = Return(permission)
  ELSE SendMoveAuthorized(rq, cl, permission)

\* Tools.isApproved returns approved: for the address (line 101), lines 102 to
\* 115 follow; for the delegation contract (line 115), lines 117 to 132.
IsApprovedReturn(rq, cl, approved) ==
  IF rq.site = "address"
  THEN IF approved
       THEN PermissionReturn(rq, cl, GrantedResult(rq.move, rq.address_to_check))
       ELSE /\ req' = [pc |-> "isApprovedForAll", site |-> "delegation",
                        operator |-> DelegationAddress] @@ rq
            /\ calls' = Append(cl, Call("isApprovedForAll", <<rq.owner, DelegationAddress>>))
            /\ UNCHANGED result
  ELSE IF ~approved
       THEN PermissionReturn(rq, cl, DeniedResult(rq.address_to_check))
       ELSE LET split == splitMovePath(rq.move)
                at_time == atTime(now)
            IN  /\ req' = [pc |-> "hasAccess", path |-> split.path,
                            remaining_value |-> split.value] @@ rq
                /\ calls' = Append(cl, Call("hasAccess",
                              <<rq.ns, rq.name, split.path, rq.address_to_check, at_time>>))
                /\ UNCHANGED result

\* Lines 57 to 89: hasMovePermission up to its first await.
HasMovePermissionEnter(rq, ns, name, move, sending_address) ==
  LET resolved == ResolveAddress(ns, name, move, sending_address)
  IN  IF ~resolved.ok
      THEN /\ req' = [pc |-> "failed", ns |-> ns, name |-> name, move |-> move] @@ rq
           /\ calls' = <<>>
           /\ result' = resolved.error
      ELSE /\ req' = [pc |-> "tokenIdForName", ns |-> ns, name |-> name, move |-> move,
                       address_to_check |-> resolved.address] @@ rq
           /\ calls' = <<Call("tokenIdForName", <<ns, name>>)>>
           /\ result' = NoResult

\* A hasMovePermission request arrives.
hasMovePermission ==
  /\ Free
  /\ \E ns \in Namespaces, name \in Names, move \in AuthMoves, sending_address \in SendingAddresses :
       HasMovePermissionEnter([op |-> "hasMovePermission", sending_address |-> sending_address],
                              ns, name, move, sending_address)
  /\ UNCHANGED <<chain, now, config>>

\* Line 89 returns; line 92 calls getOwnerById, that reads ownerOf.
TokenIdForNameReturns ==
  /\ req.pc = "tokenIdForName"
  /\ LET tokenId == tokenIdForName(req.ns, req.name)
     IN  /\ req' = [pc |-> "ownerOf", tokenId |-> tokenId] @@ req
         /\ calls' = Append(Returned(calls, tokenId),
                            Call("ownerOf", <<normalize_token_id(tokenId)>>))
  /\ UNCHANGED <<chain, now, config, result>>

\* Line 92 returns the owner; lines 94 to 101.
OwnerOfReturns ==
  /\ req.pc = "ownerOf"
  /\ LET owner == ownerOf(chain, req.tokenId)
         cl == Returned(calls, owner)
         rq == [owner |-> owner] @@ req
     IN  IF rq.address_to_check = owner
         THEN PermissionReturn(rq, cl, GrantedResult(rq.move, rq.address_to_check))
         ELSE /\ req' = [pc |-> "isApprovedForAll", site |-> "address",
                          operator |-> rq.address_to_check] @@ rq
              /\ calls' = Append(cl, Call("isApprovedForAll", <<owner, rq.address_to_check>>))
              /\ UNCHANGED result
  /\ UNCHANGED <<chain, now, config>>

\* Line 27 of tools_contract.py returns; lines 29 to 33.
IsApprovedForAllReturns ==
  /\ req.pc = "isApprovedForAll"
  /\ LET approved_for_all == isApprovedForAll(chain, req.owner, req.operator)
         cl == Returned(calls, approved_for_all)
     IN  IF approved_for_all
         THEN IsApprovedReturn(req, cl, TRUE)
         ELSE /\ req' = [pc |-> "getApproved"] @@ req
              /\ calls' = Append(cl, Call("getApproved", <<normalize_token_id(req.tokenId)>>))
              /\ UNCHANGED result
  /\ UNCHANGED <<chain, now, config>>

\* Line 33 of tools_contract.py returns; line 35.
GetApprovedReturns ==
  /\ req.pc = "getApproved"
  /\ LET approved_address == getApproved(chain, req.tokenId)
     IN  IsApprovedReturn(req, Returned(calls, approved_address),
                          approvedMatches(approved_address, req.operator))
  /\ UNCHANGED <<chain, now, config>>

\* Lines 130 to 132 return; lines 137 to 145.
HasAccessReturns ==
  /\ req.pc = "hasAccess"
  /\ LET c == calls[Len(calls)]
         has_access == hasAccess(chain, c.args[1], c.args[2], c.args[3], c.args[4], c.args[5])
     IN  PermissionReturn(req, Returned(calls, has_access),
           DelegatedResult(has_access, req.remaining_value, req.address_to_check, req.path))
  /\ UNCHANGED <<chain, now, config>>

\* Lines 130 to 134: the call raises.
HasAccessRaises ==
  /\ req.pc = "hasAccess"
  /\ req' = [pc |-> "failed"] @@ req
  /\ calls' = Raised(calls)
  /\ result' = Raise("RuntimeError", "Error calling hasAccess")
  /\ UNCHANGED <<chain, now, config>>

-----------------------------------------------------------------------------
(* Tools.sendMove, its steps                                               *)

\* A sendMove request arrives: lines 163 to 192, then hasMovePermission up to
\* its first await.
sendMove ==
  /\ Free
  /\ \E ns \in Namespaces, name \in Names, move \in AuthMoves,
        privkey \in PrivateKeys, gas_gwei \in GasOverrides :
       LET prepared == SendMovePrepare(ns, name, move, privkey, gas_gwei)
           rq == [op |-> "sendMove", ns |-> ns, name |-> name, move |-> move,
                  privkey |-> privkey, gas_gwei |-> gas_gwei]
       IN  /\ IF ~prepared.ok
              THEN /\ req' = [pc |-> "failed"] @@ rq
                   /\ calls' = <<>>
                   /\ result' = prepared.error
              ELSE HasMovePermissionEnter(
                     [acc |-> prepared.acc, gas |-> prepared.gas] @@ rq,
                     ns, name, move, Some(prepared.acc.address))
           /\ config' = [config EXCEPT !.gas_config = prepared.gas_config]
  /\ UNCHANGED <<chain, now>>

\* Line 211 returns the nonce; lines 212 to 216.
GetTransactionCountReturns ==
  /\ req.pc = "get_transaction_count"
  /\ LET nonce == get_transaction_count(chain, req.acc.address)
         tx_dict == txDict(req.acc, nonce, req.gas)
     IN  /\ req' = [pc |-> "estimate_gas", tx_dict |-> tx_dict] @@ req
         /\ calls' = Append(Returned(calls, nonce),
                            Call("estimate_gas", <<build_transaction(req.tx, tx_dict)>>))
  /\ UNCHANGED <<chain, now, config, result>>

\* Line 216 returns the estimate; lines 217 to 219 sign and broadcast.
EstimateGasReturns ==
  /\ req.pc = "estimate_gas"
  /\ LET estimate == estimate_gas(calls[Len(calls)].args[1])
         tx_dict == [gas |-> estimate] @@ req.tx_dict
         signed_tx == [transaction |-> build_transaction(req.tx, tx_dict), key |-> req.acc.key]
     IN  /\ req' = [pc |-> "send_raw_transaction", tx_dict |-> tx_dict] @@ req
         /\ calls' = Returned(calls, estimate)
                       \o <<Returned(<<Call("sign_transaction",
                                           <<signed_tx.transaction, signed_tx.key>>)>>,
                                     signed_tx)[1],
                            Call("send_raw_transaction", <<signed_tx>>)>>
  /\ UNCHANGED <<chain, now, config, result>>

\* Line 216: the estimate fails (the call would revert, the node is down).
EstimateGasRaises ==
  /\ req.pc = "estimate_gas"
  /\ req' = [pc |-> "failed"] @@ req
  /\ calls' = Raised(calls)
  /\ result' = Raise("Web3Exception", "estimate_gas failed")
  /\ UNCHANGED <<chain, now, config>>

\* Line 219 returns the hash of the accepted transaction; line 220.
SendRawTransactionReturns ==
  /\ req.pc = "send_raw_transaction"
  /\ LET tx_hash == transaction_hash_hex(calls[Len(calls)].args[1])
     IN  /\ req' = [pc |-> "done"] @@ req
         /\ calls' = Returned(calls, tx_hash)
         /\ result' = Return([txid |-> "0x" \o tx_hash])
  /\ UNCHANGED <<chain, now, config>>

\* The rejected transaction broadcast a second time.
SendRawTransactionRetriedOnce ==
  /\ req.pc = "send_raw_transaction"
  /\ IF Len(SelectSeq(calls, LAMBDA c : c.fn = "send_raw_transaction")) < 2
     THEN /\ calls' = Append(Raised(calls), Call("send_raw_transaction", calls[Len(calls)].args))
          /\ UNCHANGED <<req, result>>
     ELSE /\ req' = [pc |-> "failed"] @@ req
          /\ calls' = Raised(calls)
          /\ result' = Raise("Web3Exception", "send_raw_transaction failed")
  /\ UNCHANGED <<chain, now, config>>

\* Line 219: the node rejects the transaction.
SendRawTransactionRaises ==
  /\ req.pc = "send_raw_transaction"
  /\ req' = [pc |-> "failed"] @@ req
  /\ calls' = Raised(calls)
  /\ result' = Raise("Web3Exception", "send_raw_transaction failed")
  /\ UNCHANGED <<chain, now, config>>

\* The wrapper of main.py hands the return value, or the error as a string, to
\* the client: the request is over and nothing of it is kept.
wrapper ==
  /\ req.pc \in {"done", "failed"}
  /\ req' = Idle
  /\ calls' = <<>>
  /\ result' = NoResult
  /\ UNCHANGED <<chain, now, config>>

-----------------------------------------------------------------------------
(* The ledger and the clock move on their own.                             *)

Tick ==
  /\ now < MaxNow
  /\ now' = now + 1
  /\ UNCHANGED <<chain, config, req, calls, result>>

\* The owner sets or withdraws a blanket approval.
SetApprovalForAll ==
  /\ \E operator \in {"0xA2", DelegationAddress} :
       chain' = [chain EXCEPT !.approvedAll =
                   IF operator \in @ THEN @ \ {operator} ELSE @ \cup {operator}]
  /\ UNCHANGED <<now, config, req, calls, result>>

\* The owner approves an address for the token, or nobody.
Approve ==
  /\ \E address \in {ZeroAddress, "0xA2", DelegationAddress} \ {chain.approved} :
       chain' = [chain EXCEPT !.approved = address]
  /\ UNCHANGED <<now, config, req, calls, result>>

\* The owner grants, extends or withdraws access through the delegation contract.
SetAccess ==
  /\ \E until \in Expirations \ {chain.accessUntil} :
       chain' = [chain EXCEPT !.accessUntil = until]
  /\ UNCHANGED <<now, config, req, calls, result>>

-----------------------------------------------------------------------------
(* The server: main() builds the configuration, then requests arrive.      *)

\* Lines 85 to 101 of main.py.
Configs ==
  [gas_config : {None, Some([max |-> 3, prio |-> 2]), Some([prio |-> 2])},
   operator_account : {None, from_key("key1")}]

Init ==
  /\ chain \in Chains
  /\ now = 0
  /\ config \in Configs
  /\ req = Idle
  /\ calls = <<>>
  /\ result = NoResult

Next ==
  \/ hasMovePermission
  \/ sendMove
  \/ TokenIdForNameReturns
  \/ OwnerOfReturns
  \/ IsApprovedForAllReturns
  \/ GetApprovedReturns
  \/ HasAccessReturns
  \/ HasAccessRaises
  \/ GetTransactionCountReturns
  \/ EstimateGasReturns
  \/ EstimateGasRaises
  \/ SendRawTransactionReturns
  \/ SendRawTransactionRaises
  \/ wrapper
  \/ Tick
  \/ SetApprovalForAll
  \/ Approve
  \/ SetAccess

Spec == Init /\ [][Next]_vars

-----------------------------------------------------------------------------
(* Tools.getTransactionStatus                                              *)

\* The values a client passes as one transaction identifier.
TxidValues == {JStr(t) : t \in Transactions} \cup {JStr("beef"), JInt(1)}
TxidLists == UNION {[1..n -> TxidValues] : n \in 0..MaxTxids}
\* txids is a string, or a list.
TxidArguments == {JStr(t) : t \in Transactions \cup {"beef"}} \cup {[k |-> "list", v |-> l] : l \in TxidLists}

startswith0x(s) == s \in Transactions

\* Lines 235 to 245: the list of identifiers, or the error raised.
RECURSIVE validateTxids(_, _)
validateTxids(txid_list, i) ==
  IF i > Len(txid_list) THEN [ok |-> TRUE, txid_list |-> [j \in DOMAIN txid_list |-> txid_list[j].v]]
  ELSE IF txid_list[i].k # "str"
  THEN [ok |-> FALSE, error |-> Raise("ValueError", "Transaction IDs must be hex strings")]
  ELSE IF ~startswith0x(txid_list[i].v)
  THEN [ok |-> FALSE, error |-> Raise("ValueError", "Transaction IDs must start with 0x")]
  ELSE validateTxids(txid_list, i + 1)

txidList(txids) == validateTxids(IF txids.k = "str" THEN <<txids>> ELSE txids.v, 1)

\* Lines 252 to 257: the lookup of one identifier is awaited.
lookupCall(wait, txid) ==
  Call(IF wait THEN "wait_for_transaction_receipt" ELSE "get_transaction_receipt", <<txid>>)

\* Every receipt read as a success.
classifyAnyAsSuccess(receipt) == "success"

\* Lines 260 to 265, of a receipt that exists.
classify(receipt) == IF receipt = "success" THEN "success" ELSE "reverted"

\* Lines 250 to 270: the status of the identifier at i was stored in result; the
\* loop goes on to the next identifier, or the function returns.
StatusNext(rq, cl, statuses) ==
  IF rq.i < Len(rq.txid_list)
  THEN /\ req' = [i |-> rq.i + 1, result |-> statuses] @@ rq
       /\ calls' = Append(cl, lookupCall(rq.wait, rq.txid_list[rq.i + 1]))
       /\ UNCHANGED result
  ELSE /\ req' = [pc |-> "done", result |-> statuses] @@ rq
       /\ calls' = cl
       /\ result' = Return(statuses)

\* A getTransactionStatus request arrives: lines 235 to 257, up to the first
\* await.
getTransactionStatus ==
  /\ Free
  /\ \E txids \in TxidArguments, wait \in BOOLEAN :
       LET valid == txidList(txids)
           rq == [op |-> "getTransactionStatus", txids |-> txids, wait |-> wait]
       IN  IF ~valid.ok
           THEN /\ req' = [pc |-> "failed"] @@ rq
                /\ calls' = <<>>
                /\ result' = valid.error
           ELSE IF Len(valid.txid_list) = 0
           THEN /\ req' = [pc |-> "done", txid_list |-> <<>>, result |-> <<>>] @@ rq
                /\ calls' = <<>>
                /\ result' = Return(<<>>)
           ELSE /\ req' = [pc |-> "receipt", txid_list |-> valid.txid_list, i |-> 1,
                            result |-> <<>>] @@ rq
                /\ calls' = <<lookupCall(wait, valid.txid_list[1])>>
                /\ result' = NoResult
  /\ UNCHANGED <<chain, now, config>>

\* Line 254 or 257 returns the receipt; lines 260 to 263.
ReceiptReturns ==
  /\ req.pc = "receipt"
  /\ LET txid == req.txid_list[req.i]
         receipt == get_transaction_receipt(chain, txid)
     IN  /\ receipt # "none"
         /\ StatusNext(req, Returned(calls, receipt),
                       (txid :> classify(receipt)) @@ req.result)
  /\ UNCHANGED <<chain, now, config>>

\* Line 257 raises TransactionNotFound: no receipt yet; lines 267 and 268.
ReceiptNotFound ==
  /\ req.pc = "receipt" /\ ~req.wait
  /\ LET txid == req.txid_list[req.i]
     IN  /\ get_transaction_receipt(chain, txid) = "none"
         /\ StatusNext(req, Raised(calls), (txid :> "notfound") @@ req.result)
  /\ UNCHANGED <<chain, now, config>>

\* Line 254 raises once its timeout passed without a receipt: nothing in
\* getTransactionStatus catches it.
WaitTimesOut ==
  /\ req.pc = "receipt" /\ req.wait
  /\ get_transaction_receipt(chain, req.txid_list[req.i]) = "none"
  /\ req' = [pc |-> "failed"] @@ req
  /\ calls' = Raised(calls)
  /\ result' = Raise("TimeExhausted", "Transaction is not in the chain after 120 seconds")
  /\ UNCHANGED <<chain, now, config>>

\* A transaction is mined: it succeeds or reverts.
Mine ==
  /\ \E txid \in Transactions, status \in {"success", "reverted"} :
       /\ chain.receipts[txid] = "none"
       /\ chain' = [chain EXCEPT !.receipts[txid] = status]
  /\ UNCHANGED <<now, config, req, calls, result>>

InitStatus ==
  /\ chain \in StatusChains
  /\ now = 0
  /\ config = [gas_config |-> None, operator_account |-> None]
  /\ req = Idle
  /\ calls = <<>>
  /\ result = NoResult

NextStatus ==
  \/ getTransactionStatus
  \/ ReceiptReturns
  \/ ReceiptNotFound
  \/ WaitTimesOut
  \/ Mine
  \/ wrapper

SpecStatus == InitStatus /\ [][NextStatus]_vars

\* The node answers a lookup that can be answered: a receipt that exists is
\* handed to the awaiting request, and get_transaction_receipt does not hang.
FairStatus == WF_vars(ReceiptReturns) /\ WF_vars(ReceiptNotFound)

SpecStatusLive == SpecStatus /\ FairStatus

-----------------------------------------------------------------------------
(* hasMovePermission called twice on a ledger that does not change.        *)

\* The client repeats the hasMovePermission call that is over, with the same
\* arguments: lines 57 to 89 again. What the first call returned and the
\* calls it issued are kept for the comparison.
Repeat ==
  /\ req.op = "hasMovePermission"
  /\ req.pc \in {"done", "failed"}
  /\ "first" \notin DOMAIN req
  /\ HasMovePermissionEnter([op |-> "hasMovePermission",
                             sending_address |-> req.sending_address,
                             first |-> [result |-> result, calls |-> calls]],
                            req.ns, req.name, req.move, req.sending_address)
  /\ UNCHANGED <<chain, now, config>>

InitRepeat ==
  /\ chain \in Chains
  /\ now = 0
  /\ config \in {c \in Configs : c.gas_config = None}
  /\ req = Idle
  /\ calls = <<>>
  /\ result = NoResult

NextRepeat ==
  \/ hasMovePermission
  \/ Repeat
  \/ TokenIdForNameReturns
  \/ OwnerOfReturns
  \/ IsApprovedForAllReturns
  \/ GetApprovedReturns
  \/ HasAccessReturns
  \/ HasAccessRaises
  \/ wrapper
  \/ Tick

SpecRepeat == InitRepeat /\ [][NextRepeat]_vars

-----------------------------------------------------------------------------
(* Tools.getOwnerById and Tools._normalize_token_id                        *)

\* A token identifier passed as a string is the sequence of its characters.
TokenIdChars == {"0", "7", "a", "x", "-", "g"}
TokenIdStrings == UNION {[1..n -> TokenIdChars] : n \in 0..MaxTokenIdLen}
\* The values a client passes as tokenId: integers, strings, and null.
TokenIdArguments ==
  {JInt(n) : n \in {-7, -1, 0, 7, 10}}
    \cup {[k |-> "str", v |-> t] : t \in TokenIdStrings}
    \cup {JNull}

\* The value of the digit c in the base, or -1 when it is none.
digitValue(c, base) ==
  CASE c = "0" -> 0
    [] c = "7" -> 7
    [] c = "a" /\ base = 16 -> 10
    [] OTHER -> -1

RECURSIVE digitsValue(_, _, _)
digitsValue(digits, base, acc) ==
  IF digits = <<>> THEN Some(acc)
  ELSE IF digitValue(digits[1], base) < 0 THEN None
  ELSE digitsValue(Tail(digits), base, acc * base + digitValue(digits[1], base))

\* int(literal, base) of Python, after the sign and the base prefix: at
\* least one digit, and digits only.
unsignedValue(digits, base) ==
  IF digits = <<>> THEN None ELSE digitsValue(digits, base, 0)

\* int(token_id): an optional sign, then decimal digits.
intDecimal(token_id) ==
  IF token_id # <<>> /\ token_id[1] = "-"
  THEN LET magnitude == unsignedValue(Tail(token_id), 10)
       IN  IF magnitude.some THEN Some(0 - magnitude.val) ELSE None
  ELSE unsignedValue(token_id, 10)

\* int(token_id, 16) of a string that starts with 0x: the prefix, then
\* hexadecimal digits.
intHex(token_id) == unsignedValue(SubSeq(token_id, 3, Len(token_id)), 16)

startswithHexPrefix(token_id) ==
  Len(token_id) >= 2 /\ token_id[1] = "0" /\ token_id[2] = "x"

\* Tools._normalize_token_id of any value: the integer returned, or None when
\* it raises ValueError (int() of a malformed literal, or line 51).
normalizeTokenId(token_id) ==
  CASE token_id.k = "str" ->
         IF startswithHexPrefix(token_id.v) THEN intHex(token_id.v)
         ELSE intDecimal(token_id.v)
    [] token_id.k = "int" -> Some(normalize_token_id(token_id.v))
    [] OTHER -> None

\* The only registered token is the one of the name p/alice.
RegisteredTokens == {tokenIdForName("p", "alice")}
\* The values the ABI encoder takes for the uint256 argument of ownerOf, among
\* the values of the model: the integers that are not negative.
IsUint256(n) == n >= 0

\* A getOwnerById request arrives: lines 87 to 89 of tools_contract.py, up to
\* the await. The ValueError of _normalize_token_id is not caught by line 90.
getOwnerById ==
  /\ Free
  /\ \E tokenId \in TokenIdArguments :
       LET normalized_token_id == normalizeTokenId(tokenId)
           rq == [op |-> "getOwnerById", tokenId |-> tokenId]
       IN  IF ~normalized_token_id.some
           THEN /\ req' = [pc |-> "failed"] @@ rq
                /\ calls' = <<>>
                /\ result' = Raise("ValueError", "invalid token ID")
           ELSE /\ req' = [pc |-> "ownerOfById",
                            normalized_token_id |-> normalized_token_id.val] @@ rq
                /\ calls' = <<Call("ownerOf", <<normalized_token_id.val>>)>>
                /\ result' = NoResult
  /\ UNCHANGED <<chain, now, config>>

\* Line 89 returns the owner of a registered token.
OwnerOfByIdReturns ==
  /\ req.pc = "ownerOfById"
  /\ IsUint256(req.normalized_token_id)
  /\ req.normalized_token_id \in RegisteredTokens
  /\ LET owner == ownerOf(chain, req.normalized_token_id)
     IN  /\ req' = [pc |-> "done"] @@ req
         /\ calls' = Returned(calls, owner)
         /\ result' = Return(owner)
  /\ UNCHANGED <<chain, now, config>>

\* Line 89 reverts for a token that is not registered: lines 90 to 92.
OwnerOfByIdReverts ==
  /\ req.pc = "ownerOfById"
  /\ IsUint256(req.normalized_token_id)
  /\ req.normalized_token_id \notin RegisteredTokens
  /\ req' = [pc |-> "failed"] @@ req
  /\ calls' = Raised(calls)
  /\ result' = Raise("RuntimeError", "Token ID not found or error")
  /\ UNCHANGED <<chain, now, config>>

\* Line 89 is given an integer that is no uint256: the contract call raises
\* the ABI encoder's error, which line 90 does not catch.
OwnerOfByIdRejects ==
  /\ req.pc = "ownerOfById"
  /\ ~IsUint256(req.normalized_token_id)
  /\ req' = [pc |-> "failed"] @@ req
  /\ calls' = Raised(calls)
  /\ result' = Raise("Web3ValidationError", "Could not identify the intended function")
  /\ UNCHANGED <<chain, now, config>>

InitOwner ==
  /\ chain \in {c \in Chains : c.approvedAll = {} /\ c.approved = ZeroAddress /\ c.accessUntil = 0}
  /\ now = 0
  /\ config = [gas_config |-> None, operator_account |-> None]
  /\ req = Idle
  /\ calls = <<>>
  /\ result = NoResult

NextOwner ==
  \/ getOwnerById
  \/ OwnerOfByIdReturns
  \/ OwnerOfByIdReverts
  \/ OwnerOfByIdRejects
  \/ wrapper

SpecOwner == InitOwner /\ [][NextOwner]_vars

-----------------------------------------------------------------------------
(* Tools.getDelegationPermissions and Tools._getPermissions                *)

\* The delegation contract's tree of a token and its owner: a node holds its
\* child segments, each with the node below it, and the addresses with full
\* and with fallback access defined at the node.
TreeNode(children, full, fallback) ==
  [children |-> children, full |-> full, fallback |-> fallback]
TreeChild(name, node) == [name |-> name, node |-> node]

FullAccessKeys == {<<>>, <<"0xA2">>, <<"0xA2", "0xB3">>}
FallbackAccessKeys == {<<>>, <<"0xB3">>, <<"0xB3", "0xA2">>}

TreeLeaves == {TreeNode(<<>>, full, fallback) : full \in FullAccessKeys, fallback \in FallbackAccessKeys}
\* No child, the child a, the child b, or both.
ChildrenOf(nodes) ==
  {<<>>}
    \cup {<<TreeChild(name, node)>> : name \in {"a", "b"}, node \in nodes}
    \cup {<<TreeChild("a", n1), TreeChild("b", n2)>> : n1 \in nodes, n2 \in nodes}
ShallowTrees ==
  {TreeNode(children, full, fallback) :
     children \in ChildrenOf(TreeLeaves), full \in FullAccessKeys, fallback \in FallbackAccessKeys}
\* A tree with nodes at a, a/b, a/b/a and b.
DeepTree ==
  TreeNode(<<TreeChild("a", TreeNode(<<TreeChild("b",
                 TreeNode(<<TreeChild("a", TreeNode(<<>>, <<"0xA2">>, <<"0xB3", "0xA2">>))>>,
                          <<"0xA2", "0xB3">>, <<"0xB3">>))>>,
               <<>>, <<"0xB3">>)),
             TreeChild("b", TreeNode(<<>>, <<"0xA2", "0xB3">>, <<>>))>>,
           <<"0xA2">>, <<>>)
Trees == ShallowTrees \cup {DeepTree}

\* The ledgers of the permission requests: a tree, and the delegation
\* contract approved for the token or not.
TreeChains ==
  {[tree |-> tree] @@ c :
     tree \in Trees,
     c \in {c \in Chains : c.approvedAll = {} /\ c.approved \in {ZeroAddress, DelegationAddress}
                           /\ c.accessUntil = 0}}

RECURSIVE nodeAt(_, _)
nodeAt(node, p) ==
  IF p = <<>> THEN node
  ELSE LET below == {i \in DOMAIN node.children : node.children[i].name = p[1]}
       IN  IF below = {} THEN TreeNode(<<>>, <<>>, <<>>)
           ELSE nodeAt(node.children[CHOOSE i \in below : TRUE].node, Tail(p))

\* delegation.getDefinedKeys(tokenId, owner, p): the child segments and the
\* addresses with full and fallback access at p.
getDefinedKeys(c, tokenId, owner, p) ==
  LET node == nodeAt(c.tree, p)
  IN  [children_nodes |-> [i \in DOMAIN node.children |-> node.children[i].name],
       full_access_keys |-> node.full,
       fallback_access_keys |-> node.fallback]

segmentCode(k) == IF k = "a" THEN 1 ELSE 2
RECURSIVE pathCode(_)
pathCode(p) == IF p = <<>> THEN 0 ELSE 3 * pathCode(SubSeq(p, 1, Len(p) - 1)) + segmentCode(p[Len(p)])
\* delegation.getExpiration(tokenId, owner, p, addr, isFallback): every grant
\* of the ledger has a timestamp of its own.
getExpiration(c, tokenId, owner, p, addr, isFallback) ==
  1000 + 10 * pathCode(p) + (IF addr = "0xA2" THEN 2 ELSE 4) + (IF isFallback THEN 1 ELSE 0)

\* The subject argument: none, an address, or an address in lower case.
Subjects == {None, Some("0xA2"), Some("0xB3"), Some("0xa2")}

\* The filter dropped.
retainedAny(subject, addr) == TRUE

\* Lines 174 and 183: the grant of addr is kept.
retained(subject, addr) == ~subject.some \/ addr = subject.val

\* One running _getPermissions call: its arguments and locals.
Frame(p, keys) ==
  [p |-> p,
   children_nodes |-> keys.children_nodes,
   full_access_keys |-> keys.full_access_keys,
   fallback_access_keys |-> keys.fallback_access_keys,
   children |-> <<>>, full_access |-> <<>>, fallback_access |-> <<>>,
   k |-> 1, full_i |-> 1, fallback_i |-> 1]

\* Lines 165 to 194 from where the innermost call stands, up to its next
\* await or to the return of the outermost call.
RECURSIVE resume(_, _)
resume(stack, subject) ==
  LET f == stack[Len(stack)]
  IN  IF f.k <= Len(f.children_nodes)
      THEN [next |-> "getDefinedKeys", stack |-> stack,
            p |-> Append(f.p, f.children_nodes[f.k])]
      ELSE IF f.full_i <= Len(f.full_access_keys)
      THEN IF retained(subject, f.full_access_keys[f.full_i])
           THEN [next |-> "getExpiration", stack |-> stack, p |-> f.p,
                 addr |-> f.full_access_keys[f.full_i], isFallback |-> FALSE]
           ELSE resume([stack EXCEPT ![Len(stack)].full_i = @ + 1], subject)
      ELSE IF f.fallback_i <= Len(f.fallback_access_keys)
      THEN IF retained(subject, f.fallback_access_keys[f.fallback_i])
           THEN [next |-> "getExpiration", stack |-> stack, p |-> f.p,
                 addr |-> f.fallback_access_keys[f.fallback_i], isFallback |-> TRUE]
           ELSE resume([stack EXCEPT ![Len(stack)].fallback_i = @ + 1], subject)
      ELSE LET permissions == [children |-> f.children, fullAccess |-> f.full_access,
                               fallbackAccess |-> f.fallback_access]
           IN  IF Len(stack) = 1
               THEN [next |-> "return", permissions |-> permissions]
               ELSE LET caller == stack[Len(stack) - 1]
                        child_node == update([name |-> caller.children_nodes[caller.k]], permissions)
                    IN  resume(Append(SubSeq(stack, 1, Len(stack) - 2),
                                      [caller EXCEPT !.children = Append(@, child_node),
                                                     !.k = @ + 1]),
                               subject)

\* The request goes on to its next await, or returns (lines 155 to 160).
PermissionsContinue(rq, cl, stack) ==
  LET r == resume(stack, rq.subject)
  IN  CASE r.next = "getDefinedKeys" ->
             /\ req' = [pc |-> "getDefinedKeys", stack |-> r.stack] @@ rq
             /\ calls' = Append(cl, Call("getDefinedKeys", <<rq.tokenId, rq.owner, r.p>>))
             /\ UNCHANGED result
        [] r.next = "getExpiration" ->
             /\ req' = [pc |-> "getExpiration", stack |-> r.stack] @@ rq
             /\ calls' = Append(cl, Call("getExpiration",
                                  <<rq.tokenId, rq.owner, r.p, r.addr, r.isFallback>>))
             /\ UNCHANGED result
        [] r.next = "return" ->
             /\ req' = [pc |-> "done", stack |-> <<>>] @@ rq
             /\ calls' = cl
             /\ result' = Return([owner |-> rq.owner, tokenId |-> ToString(rq.tokenId),
                                  approved |-> rq.approved, permissions |-> r.permissions])

\* Line 150 returned approved; line 152 calls _getPermissions of the root.
PermissionsStart(rq, cl, approved) ==
  /\ req' = [pc |-> "getDefinedKeys", approved |-> approved, stack |-> <<>>] @@ rq
  /\ calls' = Append(cl, Call("getDefinedKeys", <<rq.tokenId, rq.owner, <<>>>>))
  /\ UNCHANGED result

\* A getDelegationPermissions request arrives: line 147, up to its await.
getDelegationPermissions ==
  /\ Free
  /\ \E subject \in Subjects :
       /\ req' = [op |-> "getDelegationPermissions", pc |-> "nameToTokenId",
                  ns |-> "p", name |-> "alice", subject |-> subject]
       /\ calls' = <<Call("tokenIdForName", <<"p", "alice">>)>>
       /\ result' = NoResult
  /\ UNCHANGED <<chain, now, config>>

\* Line 147 returns; line 148 calls getOwnerById, that reads ownerOf.
NameToTokenIdReturns ==
  /\ req.pc = "nameToTokenId"
  /\ LET tokenId == tokenIdForName(req.ns, req.name)
     IN  /\ req' = [pc |-> "getOwnerById", tokenId |-> tokenId] @@ req
         /\ calls' = Append(Returned(calls, tokenId),
                            Call("ownerOf", <<normalize_token_id(tokenId)>>))
  /\ UNCHANGED <<chain, now, config, result>>

\* Line 148 returns; line 151 calls isApproved of the delegation contract.
GetOwnerByIdReturns ==
  /\ req.pc = "getOwnerById"
  /\ LET owner == ownerOf(chain, req.tokenId)
     IN  /\ req' = [pc |-> "isApprovedForAllDelegation", owner |-> owner] @@ req
         /\ calls' = Append(Returned(calls, owner),
                            Call("isApprovedForAll", <<owner, DelegationAddress>>))
  /\ UNCHANGED <<chain, now, config, result>>

\* Line 27 returns in the isApproved of line 151.
DelegationApprovedForAllReturns ==
  /\ req.pc = "isApprovedForAllDelegation"
  /\ LET approved_for_all == isApprovedForAll(chain, req.owner, DelegationAddress)
         cl == Returned(calls, approved_for_all)
     IN  IF approved_for_all
         THEN PermissionsStart(req, cl, TRUE)
         ELSE /\ req' = [pc |-> "getApprovedDelegation"] @@ req
              /\ calls' = Append(cl, Call("getApproved", <<normalize_token_id(req.tokenId)>>))
              /\ UNCHANGED result
  /\ UNCHANGED <<chain, now, config>>

\* Line 33 returns in the isApproved of line 151.
DelegationGetApprovedReturns ==
  /\ req.pc = "getApprovedDelegation"
  /\ LET approved_address == getApproved(chain, req.tokenId)
     IN  PermissionsStart(req, Returned(calls, approved_address),
                          approvedMatches(approved_address, DelegationAddress))
  /\ UNCHANGED <<chain, now, config>>

\* Line 163 returns the keys defined at p: a _getPermissions call is running.
GetDefinedKeysReturns ==
  /\ req.pc = "getDefinedKeys"
  /\ LET c == calls[Len(calls)]
         keys == getDefinedKeys(chain, c.args[1], c.args[2], c.args[3])
     IN  PermissionsContinue(req, Returned(calls, keys),
                             Append(req.stack, Frame(c.args[3], keys)))
  /\ UNCHANGED <<chain, now, config>>

\* Line 175 or 184 returns the expiration: lines 176 to 179, or 185 to 188.
GetExpirationReturns ==
  /\ req.pc = "getExpiration"
  /\ LET c == calls[Len(calls)]
         expiration == getExpiration(chain, c.args[1], c.args[2], c.args[3], c.args[4], c.args[5])
         grant == [address |-> c.args[4], expiration |-> ToString(expiration)]
         top == Len(req.stack)
         stack == IF c.args[5]
                  THEN [req.stack EXCEPT ![top].fallback_access = Append(@, grant),
                                         ![top].fallback_i = @ + 1]
                  ELSE [req.stack EXCEPT ![top].full_access = Append(@, grant),
                                         ![top].full_i = @ + 1]
     IN  PermissionsContinue(req, Returned(calls, expiration), stack)
  /\ UNCHANGED <<chain, now, config>>

InitPermissions ==
  /\ chain \in TreeChains
  /\ now = 0
  /\ config = [gas_config |-> None, operator_account |-> None]
  /\ req = Idle
  /\ calls = <<>>
  /\ result = NoResult

NextPermissions ==
  \/ getDelegationPermissions
  \/ NameToTokenIdReturns
  \/ GetOwnerByIdReturns
  \/ DelegationApprovedForAllReturns
  \/ DelegationGetApprovedReturns
  \/ GetDefinedKeysReturns
  \/ GetExpirationReturns
  \/ wrapper

SpecPermissions == InitPermissions /\ [][NextPermissions]_vars

-----------------------------------------------------------------------------
(* The server with its three move tools.                                   *)

\* The delegation contract is approved for all tokens of the owner, with or
\* without a grant; transactions are mined while the server runs.
ServerChains ==
  {c \in Chains : /\ c.approvedAll = {DelegationAddress}
                  /\ c.approved = ZeroAddress
                  /\ c.accessUntil \in {0, Grace + MaxNow}}

InitServer ==
  /\ chain \in ServerChains
  /\ now = 0
  /\ config \in Configs
  /\ req = Idle
  /\ calls = <<>>
  /\ result = NoResult

NextServer ==
  \/ hasMovePermission
  \/ sendMove
  \/ getTransactionStatus
  \/ TokenIdForNameReturns
  \/ OwnerOfReturns
  \/ IsApprovedForAllReturns
  \/ GetApprovedReturns
  \/ HasAccessReturns
  \/ HasAccessRaises
  \/ GetTransactionCountReturns
  \/ EstimateGasReturns
  \/ EstimateGasRaises
  \/ SendRawTransactionReturns
  \/ SendRawTransactionRaises
  \/ ReceiptReturns
  \/ ReceiptNotFound
  \/ WaitTimesOut
  \/ Mine
  \/ wrapper

SpecServer == InitServer /\ [][NextServer]_vars

-----------------------------------------------------------------------------
(* The path splitter on its own.                                           *)

\* The call of splitMovePath(move): the whole function is one step.
SplitMovePathCall ==
  /\ req.op = "splitMovePath" /\ req.pc = "call"
  /\ result' = [kind |-> "return", value |-> splitMovePath(req.move)]
  /\ req' = [req EXCEPT !.pc = "done"]
  /\ UNCHANGED <<chain, now, config, calls>>

InitSplit ==
  /\ chain \in {c \in StatusChains : c.receipts = NoReceipts}
  /\ now = 0
  /\ config = [gas_config |-> None, operator_account |-> None]
  /\ req \in {[op |-> "splitMovePath", pc |-> "call", move |-> m] : m \in SplitMoves}
  /\ calls = <<>>
  /\ result = NoResult

NextSplit == SplitMovePathCall

SpecSplit == InitSplit /\ [][NextSplit]_vars

-----------------------------------------------------------------------------
(* The authorization decider.                                              *)

\* hasMovePermission has returned a permission, to the client or to sendMove.
PermissionReturned ==
  \/ req.op = "hasMovePermission" /\ req.pc = "done"
  \/ req.op = "sendMove" /\ "permission" \in DOMAIN req
Permission == IF req.op = "hasMovePermission" THEN result.value ELSE req.permission

\* The request has read the owner of the name's token.
OwnerRead == req.op \in {"hasMovePermission", "sendMove"} /\ "owner" \in DOMAIN req

Called(fns) == \E i \in DOMAIN calls : calls[i].fn \in fns

\* isApprovedForAll(owner, operator) was read and returned value.
BlanketRead(operator, value) ==
  \E i \in DOMAIN calls :
    /\ calls[i].fn = "isApprovedForAll"
    /\ calls[i].args = <<req.owner, operator>>
    /\ calls[i].ret.k = "ok" /\ calls[i].ret.v = value

\* getApproved(tokenId) was read for operator and returned it (value TRUE) or
\* another address (value FALSE).
TokenRead(operator, value) ==
  \E i \in DOMAIN calls :
    /\ i > 1
    /\ calls[i].fn = "getApproved" /\ calls[i].args = <<req.tokenId>>
    /\ calls[i - 1].fn = "isApprovedForAll" /\ calls[i - 1].args[2] = operator
    /\ calls[i].ret.k = "ok" /\ (calls[i].ret.v = operator) = value

DirectlyApproved(operator) == BlanketRead(operator, TRUE) \/ TokenRead(operator, TRUE)
NotApproved(operator) == BlanketRead(operator, FALSE) /\ TokenRead(operator, FALSE)

\* The whole move, serialized: what json.dumps gives for the moves of the model.
Serialized(move) ==
  CASE move = ExampleScalar -> "42"
    [] move = ExampleLeafChain -> "{\"a\":1}"
    [] move = ExampleGranted -> "{\"a\":{\"x\":1}}"
    [] move = ExampleNested -> "{\"a\":{\"b\":{\"x\":1}}}"

\* C1: once ownerOf returned the acting address, hasMovePermission has
\* returned hasPermission=true, delegation=false and the whole move
\* serialized, and the request has read no approval and has not called
\* hasAccess, whatever the approvals and the grant on the ledger are.
C1_OwnerAuthorized ==
  (OwnerRead /\ req.address_to_check = req.owner) =>
    /\ PermissionReturned
    /\ Permission = [hasPermission |-> TRUE, delegation |-> FALSE,
                     move |-> Serialized(req.move), address |-> req.address_to_check]
    /\ ~Called({"isApprovedForAll", "getApproved", "hasAccess"})

\* The owner was authorized for a nested move while the delegation contract
\* was approved and held a grant.
C1_Witness ==
  /\ req.op = "hasMovePermission" /\ req.pc = "done"
  /\ req.address_to_check = req.owner
  /\ req.move = ExampleNested
  /\ DelegationAddress \in chain.approvedAll
  /\ chain.accessUntil > 0

\* C2: when the acting address is not the owner, both approval reads for it
\* came back negative and both approval reads for the delegation contract came
\* back negative, hasMovePermission has returned hasPermission=false with the
\* reason that the delegation contract is not approved, and hasAccess is not
\* called in the request.
C2_DelegationNotApproved ==
  (/\ OwnerRead /\ req.address_to_check # req.owner
   /\ NotApproved(req.address_to_check)
   /\ NotApproved(DelegationAddress)) =>
    /\ PermissionReturned
    /\ Permission = [hasPermission |-> FALSE, address |-> req.address_to_check,
                     reason |-> "Delegation contract is not approved for this name"]
    /\ ~Called({"hasAccess"})

\* The grantee was refused for a move under the granted path, the grant valid.
C2_Witness ==
  /\ req.op = "hasMovePermission" /\ req.pc = "done"
  /\ NotApproved(req.address_to_check) /\ NotApproved(DelegationAddress)
  /\ req.address_to_check = GrantAddress
  /\ req.move = ExampleGranted
  /\ chain.accessUntil >= now + Grace

\* C3: when the acting address is not the owner and isApprovedForAll(owner,
\* address) returned true or getApproved(tokenId) returned the address,
\* hasMovePermission has returned hasPermission=true, delegation=false and the
\* whole move serialized, and neither the approval of the delegation contract
\* nor hasAccess was read.
C3_DirectApproval ==
  (/\ OwnerRead /\ req.address_to_check # req.owner
   /\ DirectlyApproved(req.address_to_check)) =>
    /\ PermissionReturned
    /\ Permission = [hasPermission |-> TRUE, delegation |-> FALSE,
                     move |-> Serialized(req.move), address |-> req.address_to_check]
    /\ ~Called({"hasAccess"})
    /\ \A i \in DOMAIN calls :
         calls[i].fn = "isApprovedForAll" => calls[i].args[2] # DelegationAddress

\* An address approved for the token only was authorized.
C3_Witness ==
  /\ req.op = "hasMovePermission" /\ req.pc = "done"
  /\ req.address_to_check # req.owner
  /\ BlanketRead(req.address_to_check, FALSE) /\ TokenRead(req.address_to_check, TRUE)
  /\ req.move = ExampleNested

\* The path and the remainder of the moves of the model.
PathOf(move) ==
  CASE move = ExampleScalar -> <<>>
    [] move = ExampleLeafChain -> <<>>
    [] move = ExampleGranted -> <<"a">>
    [] move = ExampleNested -> <<"a", "b">>
RemainderOf(move) ==
  CASE move = ExampleScalar -> "42"
    [] move = ExampleLeafChain -> "{\"a\":1}"
    [] move = ExampleGranted -> "{\"x\":1}"
    [] move = ExampleNested -> "{\"x\":1}"

\* The delegated case: not the owner, not approved, the delegation contract approved.
Delegated ==
  /\ OwnerRead /\ req.address_to_check # req.owner
  /\ NotApproved(req.address_to_check)
  /\ DirectlyApproved(DelegationAddress)

\* hasAccess is called in this step.
HasAccessIssued ==
  /\ Len(calls') = Len(calls) + 1
  /\ calls'[Len(calls')].fn = "hasAccess"

\* In the delegated case hasAccess is called with the path split off the move
\* and the acting address, and once it returned, hasMovePermission has returned
\* delegation=true, hasPermission the value hasAccess returned, the remainder
\* serialized and the path.
C4_DelegatedState ==
  Delegated =>
    \E i \in DOMAIN calls :
      /\ calls[i].fn = "hasAccess"
      /\ SubSeq(calls[i].args, 1, 4) =
           <<req.ns, req.name, PathOf(req.move), req.address_to_check>>
      /\ calls[i].ret.k = "ok" =>
           /\ PermissionReturned
           /\ Permission = [hasPermission |-> calls[i].ret.v, delegation |-> TRUE,
                            move |-> RemainderOf(req.move),
                            address |-> req.address_to_check, path |-> PathOf(req.move)]

\* C4: in the delegated case hasMovePermission calls hasAccess(ns, name, path,
\* address, atTime) with the path of splitMovePath(move) and atTime the time of
\* the call plus 60 seconds, and returns delegation=true, hasPermission what
\* hasAccess returned, the serialized remainder as move, and the path.
C4_DelegatedAccess ==
  /\ []C4_DelegatedState
  /\ [][HasAccessIssued => calls'[Len(calls')].args[5] = now + 60]_vars

\* The grantee was authorized through the delegation contract after the clock
\* had moved.
C4_Witness ==
  /\ req.op = "hasMovePermission" /\ req.pc = "done"
  /\ Delegated
  /\ result.value.hasPermission /\ result.value.delegation
  /\ result.value.path = <<"a", "b">>
  /\ now > 0

-----------------------------------------------------------------------------
(* The path splitter.                                                      *)

SplitDone == req.op = "splitMovePath" /\ req.pc = "done"

\* The value nested under the keys of path, one single-key object per key.
RECURSIVE Renest(_, _)
Renest(path, value) ==
  IF Len(path) = 0 THEN value
  ELSE JDict(<< <<Head(path), Renest(Tail(path), value)>> >>)

\* value can be peeled once more: one key, over an object.
Peelable(value) ==
  isDict(value) /\ Len(value.v) = 1 /\ isDict(value.v[1][2])

\* C5: splitMovePath(move) returns the maximal chain of keys of single-key
\* objects over objects: the remainder nested under the path is the move,
\* under a non-empty path the remainder is an object, and the remainder cannot
\* be peeled further (it is no object, has not exactly one key, or its one
\* value is no object); the four moves of the specification split as it says.
C5_SplitMaximalChain ==
  SplitDone =>
    LET path == result.value.path
        remainder == result.value.value
    IN  /\ Renest(path, remainder) = req.move
        /\ (Len(path) > 0 => isDict(remainder))
        /\ ~Peelable(remainder)
        /\ (req.move = ExampleNested => path = <<"a", "b">> /\ remainder = ExampleFlat)
        /\ (req.move = ExampleFlat => path = <<>> /\ remainder = ExampleFlat)
        /\ (req.move = ExampleTwoKeys =>
              /\ path = <<"a">>
              /\ remainder = JDict(<< <<"b", JInt(1)>>, <<"c", JInt(2)>> >>))
        /\ (req.move = ExampleScalar => path = <<>> /\ remainder = JInt(42))

\* A move split into a path of two keys that stops at a two-key object.
C5_Witness ==
  /\ SplitDone
  /\ Len(result.value.path) = 2
  /\ isDict(result.value.value) /\ Len(result.value.value.v) = 2

\* move is single-key at every layer down to a leaf that is no object.
RECURSIVE IsLeafChain(_)
IsLeafChain(move) ==
  IF isDict(move) THEN Len(move.v) = 1 /\ IsLeafChain(move.v[1][2]) ELSE TRUE

RECURSIVE ChainKeys(_)
ChainKeys(move) ==
  IF isDict(move) THEN <<move.v[1][1]>> \o ChainKeys(move.v[1][2]) ELSE <<>>

RECURSIVE ChainLeaf(_)
ChainLeaf(move) == IF isDict(move) THEN ChainLeaf(move.v[1][2]) ELSE move

\* C6 as stated: for a move that is single-key at every layer down to a leaf
\* that is no object, the path holds one key per layer and the remainder is
\* the leaf.
C6_PathConsumesEveryLayer ==
  (SplitDone /\ IsLeafChain(req.move)) =>
    /\ result.value.path = ChainKeys(req.move)
    /\ result.value.value = ChainLeaf(req.move)

\* C6 as amended: for such a move of n >= 1 layers the path holds the keys of
\* the first n - 1 layers and the remainder is the innermost single-key
\* object, that holds the leaf; a move that is itself the leaf comes back
\* whole under the empty path.
C6_PathStopsAboveLeaf ==
  (SplitDone /\ IsLeafChain(req.move)) =>
    LET keys == ChainKeys(req.move)
        n == Len(keys)
    IN  IF n = 0
        THEN result.value.path = <<>> /\ result.value.value = req.move
        ELSE /\ result.value.path = SubSeq(keys, 1, n - 1)
             /\ result.value.value = JDict(<< <<keys[n], ChainLeaf(req.move)>> >>)

\* A move of three single-key layers over a leaf has been split.
C6_Witness ==
  SplitDone /\ IsLeafChain(req.move) /\ Len(ChainKeys(req.move)) = 3

-----------------------------------------------------------------------------
(* The transaction submitter.                                              *)

Submission == {"get_transaction_count", "estimate_gas", "sign_transaction", "send_raw_transaction"}

\* C7: sendMove checks the permission of the signer's address, and when the
\* check returned hasPermission=false, sendMove has failed with the error that
\* the account has no permission, and has fetched no transaction count,
\* estimated no gas, signed nothing and broadcast nothing.
C7_DeniedSendsNothing ==
  req.op = "sendMove" =>
    /\ "address_to_check" \in DOMAIN req => req.address_to_check = req.acc.address
    /\ ("permission" \in DOMAIN req /\ ~req.permission.hasPermission) =>
         /\ req.pc = "failed"
         /\ result = Raise("RuntimeError", "Account does not have permission to send this move")
         /\ ~Called(Submission)

\* sendMove failed on a permission that hasAccess refused.
C7_Witness ==
  /\ req.op = "sendMove" /\ req.pc = "failed"
  /\ "permission" \in DOMAIN req
  /\ "path" \in DOMAIN req.permission
  /\ ~req.permission.hasPermission

\* The calls of the request to fn, and the transaction each carries.
TransactionsOf(fn) ==
  {IF fn = "send_raw_transaction" THEN calls[i].args[1].transaction ELSE calls[i].args[1] :
     i \in {j \in DOMAIN calls : calls[j].fn = fn}}

\* C8: the contract call sendMove builds follows the permission: with
\* delegation it is sendHierarchicalMove(ns, name, path, move) of the
\* delegation contract, with the path and the remainder of the move; without,
\* it is move(ns, name, move, 2^256-1, 0, zero address) of the accounts
\* contract with the whole move.  The hierarchical call is built only in the
\* delegated case, the direct call only for the owner or an approved signer,
\* and the built call is the one estimated, signed and broadcast.
C8_CallFollowsDelegation ==
  (req.op = "sendMove" /\ "tx" \in DOMAIN req) =>
    /\ IF req.permission.delegation
       THEN /\ req.tx = [contract |-> "delegation", fn |-> "sendHierarchicalMove",
                         args |-> <<req.ns, req.name, PathOf(req.move), RemainderOf(req.move)>>]
            /\ Delegated
       ELSE /\ req.tx = [contract |-> "accounts", fn |-> "move",
                         args |-> <<req.ns, req.name, Serialized(req.move),
                                    MaxUint256, 0, ZeroAddress>>]
            /\ (req.address_to_check = req.owner \/ DirectlyApproved(req.address_to_check))
    /\ \A fn \in {"estimate_gas", "sign_transaction", "send_raw_transaction"} :
         \A t \in TransactionsOf(fn) : t.call = req.tx

\* A delegated move was broadcast.
C8_Witness ==
  /\ req.op = "sendMove" /\ req.pc = "done"
  /\ req.permission.delegation
  /\ req.tx.fn = "sendHierarchicalMove"

\* The gas settings in force: per field the override, else the default.
GasInForce(key) ==
  IF req.gas_gwei.some /\ key \in DOMAIN req.gas_gwei.val THEN Some(req.gas_gwei.val[key])
  ELSE IF config.gas_config.some /\ key \in DOMAIN config.gas_config.val
       THEN Some(config.gas_config.val[key])
       ELSE None

\* C9: sendMove uses, per field, the override's value and else the default's
\* (override {max:5} over default {max:3, prio:2}: {max:5, prio:2}, priced as
\* such); when max or prio is in neither, sendMove has failed with a
\* ValueError before any call to the node or the contracts.
C9_GasMerge ==
  req.op = "sendMove" =>
    IF ~GasInForce("max").some \/ ~GasInForce("prio").some
    THEN /\ req.pc = "failed"
         /\ result.kind = "raise" /\ result.type = "ValueError"
         /\ calls = <<>>
    ELSE /\ "gas" \in DOMAIN req =>
              /\ DOMAIN req.gas = {"max", "prio"}
              /\ \A key \in {"max", "prio"} : req.gas[key] = GasInForce(key).val
         /\ ("gas" \in DOMAIN req /\ config.gas_config = Some([max |-> 3, prio |-> 2])
               /\ req.gas_gwei = Some([max |-> 5])) =>
              /\ req.gas = [max |-> 5, prio |-> 2]
              /\ "tx_dict" \in DOMAIN req =>
                   /\ req.tx_dict.maxFeePerGas = "5000000000"
                   /\ req.tx_dict.maxPriorityFeePerGas = "2000000000"
         /\ result.kind = "raise" =>
              result.msg # "Gas settings must contain 'max' and 'prio' keys"

\* The override {max:5} over the default {max:3, prio:2} priced a transaction.
C9_Witness ==
  /\ req.op = "sendMove" /\ "tx_dict" \in DOMAIN req
  /\ config.gas_config = Some([max |-> 3, prio |-> 2])
  /\ req.gas_gwei = Some([max |-> 5])

\* sendMove failed on gas settings that lack a field.
C9_WitnessIncomplete ==
  /\ req.op = "sendMove" /\ req.pc = "failed"
  /\ result = Raise("ValueError", "Gas settings must contain 'max' and 'prio' keys")
  /\ config.gas_config = Some([prio |-> 2])

-----------------------------------------------------------------------------
(* The status tracker.                                                     *)

\* The request looked transactions up and is over.
StatusOver ==
  /\ req.op = "getTransactionStatus"
  /\ req.pc \in {"done", "failed"}
  /\ "txid_list" \in DOMAIN req

\* The lookup of txid failed in the request.
LookupFailed(txid) ==
  \E i \in DOMAIN calls :
    /\ calls[i].args = <<txid>>
    /\ calls[i].fn = "wait_for_transaction_receipt"
    /\ calls[i].ret.k = "raised"

\* C10: when getTransactionStatus is over, every identifier whose own lookup
\* did not fail is reported with its outcome, whether it was resolved before
\* another one's lookup failed or was still to be resolved.
C10_OutcomesIndependent ==
  StatusOver =>
    \A i \in DOMAIN req.txid_list :
      ~LookupFailed(req.txid_list[i]) =>
        /\ result.kind = "return"
        /\ req.txid_list[i] \in DOMAIN result.value
        /\ result.value[req.txid_list[i]] \in {"success", "reverted", "notfound"}

\* The request is a status request that returned, asked with this wait flag.
StatusReturned(wait) ==
  /\ req.op = "getTransactionStatus"
  /\ req.pc = "done"
  /\ req.wait = wait

\* The lookup at i is the last one of its identifier in the request.
LastLookup(i) ==
  \A j \in DOMAIN req.txid_list : j > i => req.txid_list[j] # req.txid_list[i]

\* The request awaits the receipt of an identifier, with this wait flag.
AwaitsReceipt(wait) ==
  /\ req.op = "getTransactionStatus"
  /\ req.pc = "receipt"
  /\ req.wait = wait

Mined(txid) == chain.receipts[txid] # "none"

\* Without wait, every identifier is looked up once with
\* get_transaction_receipt, and one that had no receipt is reported notfound.
C11_SingleLookup ==
  StatusReturned(FALSE) =>
    /\ Len(calls) = Len(req.txid_list)
    /\ \A i \in DOMAIN calls :
         /\ calls[i].fn = "get_transaction_receipt"
         /\ calls[i].args = <<req.txid_list[i]>>
         /\ (calls[i].ret.k = "raised" /\ LastLookup(i)) =>
              result.value[req.txid_list[i]] = "notfound"

\* With wait, a request that returned got a receipt for every identifier and
\* reports the receipt's status, never notfound.
C11_WaitReportsReceipt ==
  StatusReturned(TRUE) =>
    /\ Len(calls) = Len(req.txid_list)
    /\ \A i \in DOMAIN calls :
         /\ calls[i].fn = "wait_for_transaction_receipt"
         /\ calls[i].args = <<req.txid_list[i]>>
         /\ calls[i].ret.k = "ok"
         /\ calls[i].ret.v \in {"success", "reverted"}
         /\ LastLookup(i) =>
              /\ calls[i].ret.v = "success" =>
                   result.value[req.txid_list[i]] = "success"
              /\ calls[i].ret.v = "reverted" =>
                   result.value[req.txid_list[i]] = "reverted"
    /\ \A txid \in DOMAIN result.value : result.value[txid] # "notfound"

\* With wait, the request does not move on while the awaited identifier has
\* no receipt: it stays where it is, or the node's timeout ends it.
C11_BlocksUnmined ==
  (AwaitsReceipt(TRUE) /\ ~Mined(req.txid_list[req.i])) =>
    \/ req' = req
    \/ req'.pc = "failed" /\ result'.kind = "raise"

\* C11: getTransactionStatus with wait=false looks an unmined transaction up
\* once, without blocking, and returns notfound for it; with wait=true it
\* blocks while there is no receipt and, once its transactions are mined,
\* eventually returns success or reverted as the receipt says, never notfound.
C11_WaitThenOutcome ==
  /\ []C11_SingleLookup
  /\ []C11_WaitReportsReceipt
  /\ [][C11_BlocksUnmined]_vars
  /\ AwaitsReceipt(FALSE) ~> (req.pc = "done")
  /\ (AwaitsReceipt(TRUE) /\ \A i \in DOMAIN req.txid_list : Mined(req.txid_list[i]))
       ~> StatusReturned(TRUE)

\* A waiting request returned the outcome of a mined transaction.
C11_Witness ==
  /\ StatusReturned(TRUE)
  /\ req.txids = JStr("0x01")
  /\ result = Return("0x01" :> "reverted")

-----------------------------------------------------------------------------
(* Idempotence of the authorization check.                                 *)

\* The repeated call is over.
SecondOver ==
  /\ req.op = "hasMovePermission"
  /\ req.pc \in {"done", "failed"}
  /\ "first" \in DOMAIN req

\* A read of the ledger failed in the calls of cl.
ReadFailed(cl) == \E i \in DOMAIN cl : cl[i].ret.k = "raised"

\* The times for which the calls of cl asked the access predicate.
AtTimes(cl) == {cl[i].args[5] : i \in {j \in DOMAIN cl : cl[j].fn = "hasAccess"}}

\* Both calls read the same ledger, and no read failed.
BothAnswered == SecondOver /\ ~ReadFailed(calls) /\ ~ReadFailed(req.first.calls)

\* C12 as stated: the repeated call returns what the first call returned,
\* whenever the two calls are made.
C12_Idempotent == BothAnswered => result = req.first.result

\* C12, amended: the repeated call returns what the first call returned
\* when both asked the access predicate for the same time, or did not ask it;
\* the results differ only as a grant and a later refusal, the grant's
\* expiration lying between the two times asked for.
C12_IdempotentAtOneTime ==
  BothAnswered =>
    /\ AtTimes(calls) = AtTimes(req.first.calls) => result = req.first.result
    /\ result # req.first.result =>
         /\ req.first.result.kind = "return" /\ result.kind = "return"
         /\ req.first.result.value.hasPermission /\ ~result.value.hasPermission
         /\ \E t1 \in AtTimes(req.first.calls), t2 \in AtTimes(calls) :
              t1 <= chain.accessUntil /\ chain.accessUntil < t2

\* Both calls were granted through the delegation contract, at different times.
C12_Witness ==
  /\ BothAnswered
  /\ AtTimes(calls) # AtTimes(req.first.calls)
  /\ result = req.first.result
  /\ result.kind = "return"
  /\ result.value.hasPermission /\ result.value.delegation

-----------------------------------------------------------------------------
(* The owner of a token identifier.                                        *)

TokenIdString(t) == [k |-> "str", v |-> t]

\* The request for the owner of a token identifier is over.
OwnerByIdOver == req.op = "getOwnerById" /\ req.pc \in {"done", "failed"}

\* The ways to write the registered token, 7, and the token 10.
WaysToWrite7 == {JInt(7), TokenIdString(<<"7">>), TokenIdString(<<"0", "x", "7">>)}
WaysToWrite10 == {JInt(10), TokenIdString(<<"0", "x", "a">>)}
\* Inputs that are no number.
NonNumeric ==
  {JNull, TokenIdString(<<>>), TokenIdString(<<"g">>), TokenIdString(<<"0", "x", "g">>),
   TokenIdString(<<"0", "x">>), TokenIdString(<<"7", "g">>), TokenIdString(<<"-">>)}
\* Inputs that denote a number outside [0, 2^256).
OutOfRange == {JInt(-1), JInt(-7), TokenIdString(<<"-", "7">>), TokenIdString(<<"-", "7", "0">>)}

\* C13: getOwnerById passes the same uint256 to ownerOf, and returns the
\* same, for an integer, a decimal string and a 0x string of one value; an
\* input that is no number or lies outside [0, 2^256) fails with the
\* argument error and is not passed to ownerOf.
C13_NormalizedOrRejected ==
  OwnerByIdOver =>
    /\ req.tokenId \in WaysToWrite7 =>
         /\ calls = <<[fn |-> "ownerOf", args |-> <<7>>, ret |-> [k |-> "ok", v |-> chain.owner]]>>
         /\ result = Return(chain.owner)
    /\ req.tokenId \in WaysToWrite10 =>
         /\ calls = <<[fn |-> "ownerOf", args |-> <<10>>, ret |-> [k |-> "raised"]]>>
         /\ result = Raise("RuntimeError", "Token ID not found or error")
    /\ req.tokenId \in NonNumeric \cup OutOfRange =>
         /\ calls = <<>>
         /\ result.kind = "raise" /\ result.type = "ValueError"

-----------------------------------------------------------------------------
(* The permission tree resolver.                                           *)

\* The permission request returned.
PermissionsOver == req.op = "getDelegationPermissions" /\ req.pc = "done"

\* The getDefinedKeys calls issued for the path p.
KeysCallsAt(p) ==
  {i \in DOMAIN calls : calls[i].fn = "getDefinedKeys" /\ calls[i].args[3] = p}
\* The getExpiration calls issued for the grant of addr at p.
ExpirationCallsFor(p, addr, isFallback) ==
  {i \in DOMAIN calls : /\ calls[i].fn = "getExpiration"
                        /\ calls[i].args[3] = p
                        /\ calls[i].args[4] = addr
                        /\ calls[i].args[5] = isFallback}

\* The grants to keep of the ledger's list of addresses: all without a
\* subject, those of the subject with one.
KeptOf(keys, subject) ==
  IF subject.some THEN SelectSeq(keys, LAMBDA addr : addr = subject.val) ELSE keys

\* The returned list of grants is the kept addresses of the ledger's list,
\* each with the timestamp its one getExpiration call returned; no call
\* was issued for an address that is not kept.
GrantsMatch(grants, keys, p, isFallback, subject) ==
  /\ [i \in DOMAIN grants |-> grants[i].address] = KeptOf(keys, subject)
  /\ \A i \in DOMAIN grants :
       /\ Cardinality(ExpirationCallsFor(p, grants[i].address, isFallback)) = 1
       /\ \A j \in ExpirationCallsFor(p, grants[i].address, isFallback) :
            /\ calls[j].ret.k = "ok"
            /\ grants[i].expiration = ToString(calls[j].ret.v)
  /\ \A i \in DOMAIN keys :
       (subject.some /\ keys[i] # subject.val) =>
         ExpirationCallsFor(p, keys[i], isFallback) = {}

\* The returned node out is the ledger's node at p: the same child segments
\* in the same order, every one expanded by one getDefinedKeys call, and
\* the kept grants; and so below.
RECURSIVE NodeMatches(_, _, _, _)
NodeMatches(out, node, p, subject) ==
  /\ Cardinality(KeysCallsAt(p)) = 1
  /\ Len(out.children) = Len(node.children)
  /\ \A i \in DOMAIN node.children :
       /\ out.children[i].name = node.children[i].name
       /\ NodeMatches(out.children[i], node.children[i].node,
                      Append(p, node.children[i].name), subject)
  /\ GrantsMatch(out.fullAccess, node.full, p, FALSE, subject)
  /\ GrantsMatch(out.fallbackAccess, node.fallback, p, TRUE, subject)

RECURSIVE NodeCount(_)
NodeCount(node) ==
  IF node.children = <<>> THEN 1
  ELSE 1 + NodeCount(node.children[1].node)
         + NodeCount(TreeNode(Tail(node.children), <<>>, <<>>)) - 1

RECURSIVE GrantCount(_)
GrantCount(out) ==
  Len(out.fullAccess) + Len(out.fallbackAccess)
    + (IF out.children = <<>> THEN 0
       ELSE GrantCount(out.children[1])
              + GrantCount([children |-> Tail(out.children), fullAccess |-> <<>>,
                            fallbackAccess |-> <<>>]))

\* C14: whatever the subject, getDelegationPermissions returns the nodes and
\* child segments of the ledger's tree, every node read by exactly one
\* getDefinedKeys call at its path; with a subject, a node's lists hold
\* exactly the defined grants of that address, and getExpiration is called
\* once per kept grant, isFallback false for full access and true for
\* fallback access, and for no other grant.
C14_FilterKeepsShape ==
  PermissionsOver =>
    /\ NodeMatches(result.value.permissions, chain.tree, <<>>, req.subject)
    /\ Cardinality({i \in DOMAIN calls : calls[i].fn = "getDefinedKeys"})
         = NodeCount(chain.tree)
    /\ Cardinality({i \in DOMAIN calls : calls[i].fn = "getExpiration"})
         = GrantCount(result.value.permissions)

\* The tree of four levels was resolved for one address: grants of the
\* other address were dropped, at the root's child b among others.
C14_Witness ==
  /\ PermissionsOver
  /\ req.subject = Some("0xB3")
  /\ chain.tree = DeepTree
  /\ result.value.permissions.fullAccess = <<>>
  /\ Len(result.value.permissions.children) = 2
  /\ result.value.permissions.children[2].fullAccess
       = <<[address |-> "0xB3", expiration |-> "1024"]>>

-----------------------------------------------------------------------------
(* No retry in the transaction submitter.                                  *)

\* The calls of fn the request has issued, by their position in the log.
IssuedOf(fn) == {i \in DOMAIN calls : calls[i].fn = fn}

\* What sendMove has issued so far: one sequence-number fetch, one gas
\* estimate, one signature and one broadcast at most, in this order, each
\* after the one before it returned.
C15_OneAttempt ==
  req.op = "sendMove" =>
    /\ \A fn \in Submission : Cardinality(IssuedOf(fn)) <= 1
    /\ \A i \in IssuedOf("estimate_gas") :
         \E j \in IssuedOf("get_transaction_count") : j < i /\ calls[j].ret.k = "ok"
    /\ \A i \in IssuedOf("send_raw_transaction") :
         /\ \E j \in IssuedOf("estimate_gas") : j < i /\ calls[j].ret.k = "ok"
         /\ \E j \in IssuedOf("sign_transaction") : j < i /\ calls[j].ret.k = "ok"

\* A failed estimate or broadcast ends sendMove with an error and no txid,
\* a failed estimate without any broadcast; a txid is returned only for the
\* broadcast the node accepted, and names its hash.
C15_FailureSurfaces ==
  req.op = "sendMove" =>
    /\ \A i \in IssuedOf("estimate_gas") \cup IssuedOf("send_raw_transaction") :
         calls[i].ret.k = "raised" =>
           /\ req.pc = "failed"
           /\ result.kind = "raise"
           /\ i = Len(calls)
    /\ result.kind = "return" =>
         /\ req.pc = "done"
         /\ calls[Len(calls)].fn = "send_raw_transaction"
         /\ calls[Len(calls)].ret.k = "ok"
         /\ result.value = [txid |-> "0x" \o calls[Len(calls)].ret.v]
    /\ req.pc = "done" => result.kind = "return"

\* A sendMove that is over issues nothing more: the next thing to happen to
\* the request is that the wrapper hands its outcome to the client.
C15_NoSecondAttempt ==
  (req.op = "sendMove" /\ req.pc \in {"done", "failed"}) =>
    \/ req' = Idle
    \/ UNCHANGED <<req, calls, result>>

\* C15: sendMove broadcasts at most one signed transaction, after exactly
\* one sequence-number fetch and one gas estimate; a failed estimate or
\* broadcast is raised to the caller, with no txid and no second attempt;
\* a txid is returned only after a broadcast the node accepted.
C15_NoLocalRetry ==
  /\ []C15_OneAttempt
  /\ []C15_FailureSurfaces
  /\ [][C15_NoSecondAttempt]_vars

\* The node rejected the broadcast and sendMove failed, having broadcast once.
C15_Witness ==
  /\ req.op = "sendMove" /\ req.pc = "failed"
  /\ Cardinality(IssuedOf("send_raw_transaction")) = 1
  /\ calls[Len(calls)].fn = "send_raw_transaction"
  /\ calls[Len(calls)].ret.k = "raised"
  /\ result.kind = "raise"

-----------------------------------------------------------------------------
(* No state shared between the requests.                                   *)

\* No step of a request, and no step of the ledger, changes the defaults.
C16_StepKeepsConfig == config' = config

\* The gas a sendMove request signs with is the override laid over the
\* defaults main() configured, whatever the requests before it passed.
C16_DefaultsAsConfigured ==
  /\ config \in Configs
  /\ (req.op = "sendMove" /\ "gas" \in DOMAIN req) =>
       \A key \in {"max", "prio"} :
         req.gas[key] =
           IF req.gas_gwei.some /\ key \in DOMAIN req.gas_gwei.val
           THEN req.gas_gwei.val[key]
           ELSE IF key = "max" THEN 3 ELSE 2

====
